---- MODULE Spec2Model ----
(***************************************************************************)
(* digitaltwin_dataspace/data/retrieve.py: the read side of a table whose  *)
(* rows either carry their own payload locator (column data) and hash, or  *)
(* defer to another row through copy_id.  base_query resolves a row        *)
(* against the row its copy_id names, the retrieve_* functions filter,     *)
(* order and limit that query, and data_result wraps what was fetched in   *)
(* Data objects whose payload is read from the blob store on demand.       *)
(***************************************************************************)
EXTENDS Integers, Sequences, FiniteSets, TLC

\* Bounds of the model.
MaxRows == 3
MaxDate == 2
MaxLimit == 2
MaxBlobRows == 2
MaxAccesses == 2
NumCallers == 2

VARIABLES
    table,     \* the rows of the table, table[i] being the row with id i
    call,      \* the retrieval call in progress or just returned ("idle": none)
    raw,       \* what fetchone()/fetchall() gave: `result` in data_result's wrapper
    ret,       \* what the decorated function returned to its caller
    executed,  \* statements executed on the connection during the call
    raised,    \* the exception that left the call ("none": it returned)
    blobs,     \* the locators storage_manager has an entry for
    reads,     \* the locators storage_manager.read was called with, in order
    got,       \* what the caller's accesses to the returned Data gave, in order
    frames,    \* per concurrent caller: position in a retrieval function
    open       \* connections to the engine that are open

vars == <<table, call, raw, ret, executed, raised, blobs, reads, got, frames, open>>

----------------------------------------------------------------------------
\* Values.  A nullable column or argument holds NULL or a non-empty tuple.

NULL == <<>>

Locator(i) == <<"loc", i>>
Hash(i) == <<"hash", i>>
Type(i) == <<"type", i>>

Min(a, b) == IF a <= b THEN a ELSE b

\* fetchone() on no row, and the wrapper's return for it
None == [kind |-> "None"]
\* no value: the call has not returned one
Unset == [kind |-> "unset"]

----------------------------------------------------------------------------
\* The table.  Ids are unique and grow with insertion, and a copy row names an
\* earlier row.  The locator, hash and type a row holds are its own: no two rows
\* share one, so a resolved value tells which row it came from.

RowSpace(i) ==
    [id : {i}, date : 1..MaxDate, data : {NULL, Locator(i)},
     hash : {NULL, Hash(i)}, type : {Type(i)},
     copy_id : {NULL} \cup {<<j>> : j \in 1..(i - 1)}]

RECURSIVE TablesOfSize(_)
TablesOfSize(k) ==
    IF k = 0 THEN {<<>>}
    ELSE {Append(t, R) : t \in TablesOfSize(k - 1), R \in RowSpace(k)}

Tables(maxRows) == UNION {TablesOfSize(k) : k \in 0..maxRows}

Rows(t) == {t[i] : i \in DOMAIN t}

----------------------------------------------------------------------------
\* The query.

coalesce(a, b) == IF a # NULL THEN a ELSE b

\* the row of the alias t2 that the outer join pairs with R: the rows whose id is
\* R.copy_id, or a row of NULLs when there is none
NullRow == [id |-> NULL, date |-> NULL, data |-> NULL, hash |-> NULL,
            type |-> NULL, copy_id |-> NULL]

outerjoin(t, R) ==
    LET on == {T \in Rows(t) : R.copy_id = <<T.id>>}
    IN  IF on = {} THEN {NullRow} ELSE on

\* base_query with faults: the join left out, and a second hop followed
base_query_nojoin(t, with_null) ==
    {[id |-> R.id, date |-> R.date, data |-> R.data, type |-> R.type, hash |-> R.hash]
       : R \in {R \in Rows(t) : with_null \/ (R.copy_id # NULL \/ R.hash # NULL)}}

base_query_two_hops(t, with_null) ==
    LET kept == {R \in Rows(t) : with_null \/ (R.copy_id # NULL \/ R.hash # NULL)}
        one(R) == {[own |-> R, data |-> coalesce(T.data, R.data),
                    hash |-> coalesce(T.hash, R.hash), via |-> T]
                      : T \in outerjoin(t, R)}
        two(p) == IF p.via.copy_id = NULL THEN {p}
                  ELSE {[p EXCEPT !.data = coalesce(p.data, U.data),
                                  !.hash = coalesce(p.hash, U.hash)]
                          : U \in outerjoin(t, p.via)}
    IN  {[id |-> q.own.id, date |-> q.own.date, data |-> q.data,
          type |-> q.own.type, hash |-> q.hash]
           : q \in UNION {two(p) : p \in UNION {one(R) : R \in kept}}}

base_query(t, with_null) ==
    LET kept == {R \in Rows(t) : with_null \/ (R.copy_id # NULL \/ R.hash # NULL)}
    IN  {[id |-> p[1].id, date |-> p[1].date,
          data |-> coalesce(p[2].data, p[1].data),
          type |-> p[1].type,
          hash |-> coalesce(p[2].hash, p[1].hash)]
           : p \in UNION {{<<R, T>> : T \in outerjoin(t, R)} : R \in kept}}

\* table.c.date < x with x = None: SQLAlchemy refuses None as the operand of an
\* ordering comparison (ArgumentError) while the expression is built, which is
\* before connection.execute is called.  Only retrieve_between_datetime is written
\* for None arguments.
\* With the fault: the comparison is compiled to `date < NULL`, true of no row.
compare_sql_null(x) == FALSE

compare_raises(x) == x = NULL

\* .where(table.c.date > x) and .where(table.c.date < x), x being <<d>>; the
\* latter also with a fault: the bound included
date_gt(q, x) == {r \in q : x # NULL /\ r.date > x[1]}

date_lt_inclusive(q, x) == {r \in q : x # NULL /\ r.date <= x[1]}

date_lt(q, x) == {r \in q : x # NULL /\ r.date < x[1]}

\* .order_by(table.c.date.asc()) and .desc(): every order of q the Row Source may
\* return the rows in; rows of equal date come in any order
Sorted(s, dir) ==
    \A i \in 1..(Len(s) - 1) :
        IF dir = "asc" THEN s[i].date <= s[i + 1].date
                       ELSE s[i].date >= s[i + 1].date

order_by(q, dir) ==
    {s \in [1..Cardinality(q) -> q] :
        /\ \A i, j \in DOMAIN s : i # j => s[i] # s[j]
        /\ Sorted(s, dir)}

\* .limit(n), and with a fault one row more
limit_plus_one(s, n) == SubSeq(s, 1, Min(n + 1, Len(s)))

limit(s, n) == SubSeq(s, 1, Min(n, Len(s)))

fetchone(s) == IF Len(s) = 0 THEN None ELSE [kind |-> "row", row |-> s[1]]

fetchall(s) == [kind |-> "list", rows |-> s]

----------------------------------------------------------------------------
\* The result.

Data(date, hash, _url, content_type) ==
    [date |-> date, hash |-> hash, _url |-> _url, content_type |-> content_type]

FromRow(row) == Data(row.date, row.hash, row.data, row.type)

\* data_result with a fault: `if not result` for `if result is None`
data_result_falsy(result) ==
    IF result = None \/ (result.kind = "list" /\ Len(result.rows) = 0) THEN None
    ELSE IF result.kind # "list" THEN [kind |-> "row", row |-> FromRow(result.row)]
    ELSE [kind |-> "list",
          rows |-> [i \in 1..Len(result.rows) |-> FromRow(result.rows[i])]]

data_result(result) ==
    IF result = None THEN None
    ELSE IF result.kind # "list" THEN [kind |-> "row", row |-> FromRow(result.row)]
    ELSE [kind |-> "list",
          rows |-> [i \in 1..Len(result.rows) |-> FromRow(result.rows[i])]]

----------------------------------------------------------------------------
\* A call, from entry to return.  The connection is opened on entry to the with
\* block and closed on leaving it, so open is what it was.

Idle == [fn |-> "idle", date |-> NULL, start_date |-> NULL, end_date |-> NULL,
         limit |-> 0, with_null |-> FALSE]

Called(fn, date, start_date, end_date, n, with_null) ==
    [fn |-> fn, date |-> date, start_date |-> start_date, end_date |-> end_date,
     limit |-> n, with_null |-> with_null]

Returns(c, result) ==
    /\ call' = c
    /\ raw' = result
    /\ ret' = data_result(result)
    /\ executed' = 1
    /\ raised' = "none"
    /\ UNCHANGED <<table, blobs, reads, got, frames, open>>

Raises(c, e) ==
    /\ call' = c
    /\ raw' = Unset
    /\ ret' = Unset
    /\ executed' = 0
    /\ raised' = e
    /\ UNCHANGED <<table, blobs, reads, got, frames, open>>

DateArgs == {<<d>> : d \in 1..(MaxDate + 1)}
Limits == 0..MaxLimit

retrieve_latest_row(with_null) ==
    /\ call.fn = "idle"
    /\ \E s \in order_by(base_query(table, with_null), "desc") :
          Returns(Called("retrieve_latest_row", NULL, NULL, NULL, 1, with_null),
                  fetchone(limit(s, 1)))

retrieve_first_row ==
    /\ call.fn = "idle"
    /\ \E s \in order_by(base_query(table, FALSE), "asc") :
          Returns(Called("retrieve_first_row", NULL, NULL, NULL, 1, FALSE),
                  fetchone(limit(s, 1)))

retrieve_after_datetime(date, n) ==
    /\ call.fn = "idle"
    /\ \E s \in order_by(date_gt(base_query(table, FALSE), date), "desc") :
          Returns(Called("retrieve_after_datetime", date, NULL, NULL, n, FALSE),
                  fetchall(limit(s, n)))

retrieve_before_datetime(date, n) ==
    /\ call.fn = "idle"
    /\ \E s \in order_by(date_lt(base_query(table, FALSE), date), "desc") :
          Returns(Called("retrieve_before_datetime", date, NULL, NULL, n, FALSE),
                  fetchall(limit(s, n)))

retrieve_between_datetime(start_date, end_date, n) ==
    LET c == Called("retrieve_between_datetime", NULL, start_date, end_date, n, FALSE)
    IN  /\ call.fn = "idle"
        /\ IF start_date = NULL
           THEN IF compare_raises(end_date)
                THEN Raises(c, "ArgumentError")
                ELSE \E s \in order_by(date_lt(base_query(table, FALSE), end_date),
                                       "asc") :
                        Returns(c, fetchall(limit(s, n)))
           ELSE IF end_date = NULL
                THEN \E s \in order_by(date_gt(base_query(table, FALSE), start_date),
                                       "asc") :
                        Returns(c, fetchall(limit(s, n)))
                ELSE \E s \in order_by(date_lt(date_gt(base_query(table, FALSE),
                                                       start_date), end_date),
                                       "asc") :
                        Returns(c, fetchall(limit(s, n)))

retrieve_latest_rows_before_datetime(date, n) ==
    /\ call.fn = "idle"
    /\ \E s \in order_by(date_lt(base_query(table, FALSE), date), "desc") :
          Returns(Called("retrieve_latest_rows_before_datetime", date, NULL, NULL,
                         n, FALSE),
                  fetchall(limit(s, n)))

retrieve_latest_row_before_datetime(date, with_null) ==
    /\ call.fn = "idle"
    /\ \E s \in order_by(date_lt(base_query(table, with_null), date), "desc") :
          Returns(Called("retrieve_latest_row_before_datetime", date, NULL, NULL,
                         1, with_null),
                  fetchone(limit(s, 1)))

\* The caller drops what it was given: nothing of a call outlives it.
Discard ==
    /\ call.fn # "idle"
    /\ call' = Idle
    /\ raw' = Unset
    /\ ret' = Unset
    /\ executed' = 0
    /\ raised' = "none"
    /\ got' = <<>>
    /\ reads' = <<>>
    /\ UNCHANGED <<table, blobs, frames, open>>

NoFrames == [c \in 1..NumCallers |-> [pc |-> "idle", fn |-> "none", out |-> "none"]]

InitCall ==
    /\ call = Idle
    /\ raw = Unset
    /\ ret = Unset
    /\ executed = 0
    /\ raised = "none"
    /\ reads = <<>>
    /\ got = <<>>
    /\ frames = NoFrames
    /\ open = 0

Init ==
    /\ table \in Tables(MaxRows)
    /\ blobs = {}
    /\ InitCall

Retrieve ==
    \/ \E with_null \in BOOLEAN : retrieve_latest_row(with_null)
    \/ retrieve_first_row
    \/ \E date \in DateArgs, n \in Limits : retrieve_after_datetime(date, n)
    \/ \E date \in DateArgs, n \in Limits : retrieve_before_datetime(date, n)
    \/ \E start_date \in DateArgs \cup {NULL}, end_date \in DateArgs \cup {NULL},
          n \in Limits : retrieve_between_datetime(start_date, end_date, n)
    \/ \E date \in DateArgs, n \in Limits :
          retrieve_latest_rows_before_datetime(date, n)
    \/ \E date \in DateArgs, with_null \in BOOLEAN :
          retrieve_latest_row_before_datetime(date, with_null)

Next ==
    \/ Retrieve
    \/ Discard

Spec == Init /\ [][Next]_vars

----------------------------------------------------------------------------
\* The payload of a returned Data.  Init of SpecBlob draws what the blob store
\* holds; a call's Data objects stay with the caller until it drops them.

\* storage_manager.read(url): the bytes stored under url, or StorageUnavailable
\* when there is no entry for it
storage_manager_read(url) ==
    IF url \in blobs THEN [kind |-> "bytes", of |-> url]
                     ELSE [kind |-> "StorageUnavailable"]

\* data with a fault: a failed read is swallowed and None handed back
data_swallows(d) ==
    [reads |-> Append(reads, d._url),
     out |-> IF d._url \in blobs THEN storage_manager_read(d._url) ELSE None]

\* Data.data: one read of the blob store, whatever it gives or raises handed on
data(d) ==
    [reads |-> Append(reads, d._url), out |-> storage_manager_read(d._url)]

\* the Data objects the caller holds
Held ==
    IF ret.kind = "row" THEN <<ret.row>>
    ELSE IF ret.kind = "list" THEN ret.rows
    ELSE <<>>

\* the caller reads .date, .hash and .content_type of the i-th Data
ReadMeta(i) ==
    /\ i \in 1..Len(Held)
    /\ Len(got) < MaxAccesses
    /\ got' = Append(got, [index |-> i, attr |-> "meta",
                            out |-> [kind |-> "fields", date |-> Held[i].date,
                                     hash |-> Held[i].hash,
                                     content_type |-> Held[i].content_type]])
    /\ UNCHANGED <<table, call, raw, ret, executed, raised, blobs, reads, frames, open>>

\* the caller reads .data of the i-th Data
ReadData(i) ==
    /\ i \in 1..Len(Held)
    /\ Len(got) < MaxAccesses
    /\ LET r == data(Held[i])
       IN  /\ reads' = r.reads
           /\ got' = Append(got, [index |-> i, attr |-> "data", out |-> r.out])
    /\ UNCHANGED <<table, call, raw, ret, executed, raised, blobs, frames, open>>

InitBlob ==
    /\ table \in Tables(MaxBlobRows)
    /\ blobs \in SUBSET {Locator(i) : i \in 1..MaxBlobRows}
    /\ InitCall

NextBlob ==
    \/ Retrieve
    \/ Discard
    \/ \E i \in 1..MaxLimit : ReadMeta(i)
    \/ \E i \in 1..MaxLimit : ReadData(i)

SpecBlob == InitBlob /\ [][NextBlob]_vars

----------------------------------------------------------------------------
\* Concurrent callers.  Every retrieval function is one with block around one
\* connection.execute(...).fetch*(); a caller's frame is its place in it.

Callers == 1..NumCallers

Functions ==
    {"retrieve_latest_row", "retrieve_first_row", "retrieve_after_datetime",
     "retrieve_before_datetime", "retrieve_between_datetime",
     "retrieve_latest_rows_before_datetime", "retrieve_latest_row_before_datetime"}

\* with_exit with a fault: close() after the fetch, with no with block around it
with_exit_no_finally(pc, n) == IF pc = "raising" THEN n ELSE n - 1

\* leaving `with engine.connect() as connection:` closes the connection, by return
\* or by exception; n connections were open
with_exit(pc, n) == n - 1

\* engine.connect() gives a connection and the with block is entered
Enter(c, fn) ==
    /\ frames[c].pc = "idle"
    /\ frames' = [frames EXCEPT ![c] = [pc |-> "connected", fn |-> fn, out |-> "none"]]
    /\ open' = open + 1
    /\ UNCHANGED <<table, call, raw, ret, executed, raised, blobs, reads, got>>

\* engine.connect() raises: there is no connection and the caller gets the error
ConnectFails(c, fn) ==
    /\ frames[c].pc = "idle"
    /\ frames' = [frames EXCEPT ![c] = [pc |-> "idle", fn |-> fn,
                                        out |-> "no_connection"]]
    /\ UNCHANGED <<table, call, raw, ret, executed, raised, blobs, reads, got, open>>

\* retrieve_between_datetime with both dates None: building the query raises
BuildRaises(c) ==
    /\ frames[c].pc = "connected"
    /\ frames[c].fn = "retrieve_between_datetime"
    /\ frames' = [frames EXCEPT ![c].pc = "raising"]
    /\ UNCHANGED <<table, call, raw, ret, executed, raised, blobs, reads, got, open>>

\* connection.execute(...).fetchone() / .fetchall() gives its rows
Execute(c) ==
    /\ frames[c].pc = "connected"
    /\ frames' = [frames EXCEPT ![c].pc = "fetched"]
    /\ UNCHANGED <<table, call, raw, ret, executed, raised, blobs, reads, got, open>>

\* connection.execute(...) raises: the Row Source failed
ExecuteFails(c) ==
    /\ frames[c].pc = "connected"
    /\ frames' = [frames EXCEPT ![c].pc = "raising"]
    /\ UNCHANGED <<table, call, raw, ret, executed, raised, blobs, reads, got, open>>

\* the with block is left and control is back with the caller
Exit(c) ==
    /\ frames[c].pc \in {"fetched", "raising"}
    /\ open' = with_exit(frames[c].pc, open)
    /\ frames' = [frames EXCEPT ![c].pc = "idle",
                                ![c].out = IF frames[c].pc = "fetched" THEN "value"
                                                                       ELSE "error"]
    /\ UNCHANGED <<table, call, raw, ret, executed, raised, blobs, reads, got>>

InitConn ==
    /\ table = <<>>
    /\ blobs = {}
    /\ InitCall

NextConn ==
    \/ \E c \in Callers, fn \in Functions : Enter(c, fn)
    \/ \E c \in Callers, fn \in Functions : ConnectFails(c, fn)
    \/ \E c \in Callers : BuildRaises(c)
    \/ \E c \in Callers : Execute(c)
    \/ \E c \in Callers : ExecuteFails(c)
    \/ \E c \in Callers : Exit(c)

SpecConn == InitConn /\ [][NextConn]_vars

----------------------------------------------------------------------------
\* What the properties below speak of.

\* the rows fetched, in order; RawRows[k] became Held[k]
RawRows ==
    IF raw.kind = "row" THEN <<raw.row>>
    ELSE IF raw.kind = "list" THEN raw.rows
    ELSE <<>>

SingleRow ==
    {"retrieve_latest_row", "retrieve_first_row", "retrieve_latest_row_before_datetime"}

BeforeStyle ==
    {"retrieve_before_datetime", "retrieve_latest_rows_before_datetime",
     "retrieve_latest_row_before_datetime"}

\* a row with no payload of its own and no reference to one
Unresolved(R) == R.copy_id = NULL /\ R.hash = NULL

\* the lower and upper date bound of the call, NULL for none
Lower ==
    IF call.fn = "retrieve_after_datetime" THEN call.date
    ELSE IF call.fn = "retrieve_between_datetime" THEN call.start_date
    ELSE NULL

Upper ==
    IF call.fn \in BeforeStyle THEN call.date
    ELSE IF call.fn = "retrieve_between_datetime" THEN call.end_date
    ELSE NULL

\* the ids of the rows the call asks for: not unresolved unless with_null, and
\* strictly inside the bounds
Window(lo, hi, with_null) ==
    {i \in DOMAIN table :
        /\ with_null \/ ~Unresolved(table[i])
        /\ lo = NULL \/ table[i].date > lo[1]
        /\ hi = NULL \/ table[i].date < hi[1]}

Matching == Window(Lower, Upper, call.with_null)

BothAbsent ==
    /\ call.fn = "retrieve_between_datetime"
    /\ call.start_date = NULL
    /\ call.end_date = NULL

\* R has no payload and names T, which has one
CopyOf(R, T) ==
    /\ R.data = NULL /\ R.hash = NULL
    /\ R.copy_id = <<T.id>>
    /\ T.data # NULL /\ T.hash # NULL

\* R has no payload and names T, which has none either and names U, which has one
CopyOfCopy(R) ==
    /\ R.data = NULL /\ R.hash = NULL /\ R.copy_id # NULL
    /\ LET T == table[R.copy_id[1]]
       IN  /\ T.data = NULL /\ T.hash = NULL /\ T.copy_id # NULL
           /\ LET U == table[T.copy_id[1]]
              IN  U.data # NULL /\ U.hash # NULL

----------------------------------------------------------------------------
\* C1: every row with a payload of its own (data and hash non-null) comes back
\* with its own data, hash and type, whatever its copy_id names.
C1_OwnPayloadKept ==
    \A k \in 1..Len(RawRows) :
        LET R == table[RawRows[k].id]
        IN  (R.data # NULL /\ R.hash # NULL) =>
                /\ RawRows[k].data = R.data /\ Held[k]._url = R.data
                /\ RawRows[k].hash = R.hash /\ Held[k].hash = R.hash
                /\ RawRows[k].type = R.type /\ Held[k].content_type = R.type

\* C2: a row without payload whose copy_id names a row with one comes back, from
\* every retrieval, with its own date and the named row's data and hash; on the
\* table (1: date 1, own payload), (2: date 2, copy of 1) retrieve_latest_row
\* returns date 2 with the hash and the locator of row 1.
C2_CopyResolved ==
    /\ \A k \in 1..Len(RawRows) :
          LET R == table[RawRows[k].id]
          IN  \A T \in Rows(table) :
                  CopyOf(R, T) =>
                      /\ Held[k].date = R.date
                      /\ Held[k]._url = T.data
                      /\ Held[k].hash = T.hash
    /\ ( /\ call.fn = "retrieve_latest_row"
         /\ DOMAIN table = 1..2
         /\ table[1].date < table[2].date
         /\ CopyOf(table[2], table[1]) )
       => /\ ret.kind = "row"
          /\ ret.row.date = table[2].date
          /\ ret.row.hash = Hash(1)
          /\ ret.row._url = Locator(1)

\* C2 witness: the two-row table, and what retrieve_latest_row returned on it
C2_Witness ==
    /\ call.fn = "retrieve_latest_row"
    /\ DOMAIN table = 1..2
    /\ table[1].date < table[2].date
    /\ CopyOf(table[2], table[1])
    /\ ret = [kind |-> "row",
              row |-> Data(table[2].date, Hash(1), Locator(1), Type(2))]

\* C3: a row with null data and null copy_id is returned only by a call made with
\* with_null = True, whatever its hash; a table of only such a row gives None from
\* retrieve_latest_row().
C3_NoPayloadExcluded ==
    /\ \A k \in 1..Len(RawRows) :
          LET R == table[RawRows[k].id]
          IN  (R.data = NULL /\ R.copy_id = NULL) => call.with_null
    /\ ( /\ call.fn = "retrieve_latest_row" /\ ~call.with_null
         /\ DOMAIN table = 1..1
         /\ table[1].data = NULL /\ table[1].copy_id = NULL )
       => ret = None

\* C4: retrieve_between_datetime with both dates None ends in an error before any
\* statement is executed, and returns nothing.
C4_BothAbsentRejected ==
    BothAbsent => /\ raised # "none"
                  /\ executed = 0
                  /\ ret = Unset

\* C4 witness: both dates None on a table with rows to return
C4_Witness ==
    /\ BothAbsent
    /\ raised = "ArgumentError"
    /\ \E i \in DOMAIN table : ~Unresolved(table[i])

\* C5 as stated: retrieve_after_datetime(d, n) returns at most n rows, all of date
\* > d, each of a date strictly greater than the next one's.
C5_StrictlyDescending ==
    call.fn = "retrieve_after_datetime" =>
        /\ ret.kind = "list"
        /\ Len(ret.rows) <= call.limit
        /\ \A k \in 1..Len(ret.rows) : ret.rows[k].date > call.date[1]
        /\ \A k \in 1..(Len(ret.rows) - 1) : ret.rows[k].date > ret.rows[k + 1].date

\* C5 amended: retrieve_after_datetime(d, n) returns at most n rows, all of date
\* > d, each of a date greater than or equal to the next one's.
C5_Descending ==
    call.fn = "retrieve_after_datetime" =>
        /\ ret.kind = "list"
        /\ Len(ret.rows) <= call.limit
        /\ \A k \in 1..Len(ret.rows) : ret.rows[k].date > call.date[1]
        /\ \A k \in 1..(Len(ret.rows) - 1) : ret.rows[k].date >= ret.rows[k + 1].date

\* C5 witness: more matching rows than the limit, two of one date returned
C5_Witness ==
    /\ call.fn = "retrieve_after_datetime"
    /\ Cardinality(Matching) > call.limit
    /\ Len(ret.rows) = 2
    /\ ret.rows[1].date = ret.rows[2].date

\* C6: a call that matches no row returns, without error, None from the single-row
\* functions and an empty list from the others.
C6_SoftEmpty ==
    (call.fn # "idle" /\ ~BothAbsent /\ Matching = {}) =>
        /\ raised = "none"
        /\ call.fn \in SingleRow => ret = None
        /\ call.fn \notin SingleRow => (ret.kind = "list" /\ Len(ret.rows) = 0)

\* C6 witness: a table of unresolved rows, all before the date asked for
C6_Witness ==
    /\ call.fn = "retrieve_before_datetime"
    /\ call.limit > 0
    /\ DOMAIN table # {}
    /\ \A i \in DOMAIN table : Unresolved(table[i]) /\ table[i].date < call.date[1]
    /\ ret = [kind |-> "list", rows |-> <<>>]

\* C7: the open connections are exactly those of the callers inside a with block:
\* a caller back from a call, by return or by error, holds none, and with every
\* caller back none is open.
C7_ConnectionsReleased ==
    /\ open = Cardinality({c \in Callers : frames[c].pc # "idle"})
    /\ (\A c \in Callers : frames[c].pc = "idle") => open = 0

\* C7 witness: every caller back, one from an error raised inside the with block
\* and one with a value
C7_Witness ==
    /\ \A c \in Callers : frames[c].pc = "idle"
    /\ \E c \in Callers : frames[c].out = "error" /\ frames[c].fn = "retrieve_latest_row"
    /\ \E c \in Callers : frames[c].out = "value"
    /\ open = 0

\* C8: storage_manager.read is called once for each read of a Data's .data, with
\* that Data's resolved locator, and never by a retrieval or by a read of date, hash
\* or content_type; a locator the store has no entry for gives the reader
\* StorageUnavailable, and the reads of the other fields give the fields.
C8_LazyPayload ==
    LET IsData(g) == g.attr = "data"
        acc == SelectSeq(got, IsData)
    IN  /\ Len(reads) = Len(acc)
        /\ \A k \in 1..Len(acc) :
              /\ reads[k] = RawRows[acc[k].index].data
              /\ reads[k] \notin blobs => acc[k].out = [kind |-> "StorageUnavailable"]
              /\ reads[k] \in blobs => acc[k].out = [kind |-> "bytes", of |-> reads[k]]
        /\ \A k \in 1..Len(got) :
              got[k].attr = "meta" =>
                  got[k].out = [kind |-> "fields",
                                date |-> RawRows[got[k].index].date,
                                hash |-> RawRows[got[k].index].hash,
                                content_type |-> RawRows[got[k].index].type]

\* C8 witness: the fields of a resolved copy row read, then its payload, which
\* the store does not hold
C8_Witness ==
    /\ Len(got) = 2
    /\ got[1].attr = "meta" /\ got[1].out.kind = "fields"
    /\ got[2].attr = "data" /\ got[2].out.kind = "StorageUnavailable"
    /\ got[1].index = got[2].index
    /\ RawRows[got[2].index].id = 2
    /\ reads = <<Locator(1)>>

\* C9: retrieve_between_datetime returns the first n, by ascending date, of the
\* rows that are not unresolved and lie strictly inside its bounds, an absent bound
\* not limiting; retrieve_before_datetime(end, n) and retrieve_after_datetime(start,
\* n) draw their rows from the sets of between(None, end) and between(start, None).
C9_BetweenWindow ==
    LET W == Window(Lower, Upper, FALSE)
        ids == {RawRows[k].id : k \in 1..Len(RawRows)}
    IN  /\ (call.fn = "retrieve_between_datetime" /\ ~BothAbsent) =>
              /\ ret.kind = "list"
              /\ Len(ret.rows) = Min(call.limit, Cardinality(W))
              /\ Cardinality(ids) = Len(RawRows)
              /\ ids \subseteq W
              /\ \A k \in 1..(Len(ret.rows) - 1) :
                    ret.rows[k].date <= ret.rows[k + 1].date
              /\ \A k \in 1..Len(ret.rows) :
                    /\ ret.rows[k].date = table[RawRows[k].id].date
                    /\ \A i \in W \ ids : ret.rows[k].date <= table[i].date
        /\ call.fn \in {"retrieve_before_datetime", "retrieve_after_datetime"} =>
              /\ ret.kind = "list"
              /\ Len(ret.rows) = Min(call.limit, Cardinality(W))
              /\ Cardinality(ids) = Len(RawRows)
              /\ ids \subseteq W

\* C9 witness: both bounds given, two rows returned, a row of the start date left out
C9_Witness ==
    /\ call.fn = "retrieve_between_datetime"
    /\ call.start_date # NULL /\ call.end_date # NULL
    /\ Len(ret.rows) = 2
    /\ \E i \in DOMAIN table :
          ~Unresolved(table[i]) /\ table[i].date = call.start_date[1]

\* C10: a copy of a copy (R names T, T without payload names U, U has one) is
\* kept by the default query and comes back with null data and null hash:
\* retrieve_latest_row() returns it when it is the latest row, and every call made
\* without with_null that returns it returns None for its hash and its locator.
C10_OneHop ==
    /\ \A k \in 1..Len(RawRows) :
          LET R == table[RawRows[k].id]
          IN  CopyOfCopy(R) => Held[k]._url = NULL /\ Held[k].hash = NULL
    /\ \A i \in DOMAIN table :
          ( /\ call.fn = "retrieve_latest_row" /\ ~call.with_null
            /\ CopyOfCopy(table[i])
            /\ \A j \in DOMAIN table \ {i} : table[j].date < table[i].date )
          => /\ raw.kind = "row"
             /\ raw.row.id = i
             /\ ret.row._url = NULL /\ ret.row.hash = NULL

\* C10 witness: a copy of a copy returned by the default retrieve_latest_row
C10_Witness ==
    /\ call.fn = "retrieve_latest_row" /\ ~call.with_null
    /\ raw.kind = "row"
    /\ CopyOfCopy(table[raw.row.id])
    /\ ret.row.hash = NULL
    /\ ret.row._url = NULL

====
